---- MODULE Spec2Model ----
(***************************************************************************)
(* Drug-mention pipeline of servier-test (src/src/main.py and              *)
(* src/src/utils/utils.py).                                                *)
(*                                                                         *)
(* A text is a tuple of one-character strings.  A table (DataFrame) is a   *)
(* sequence of rows, a row is a record of cells.  A Python dict is a       *)
(* record [keys, ref]: the keys in insertion order and, per key, the       *)
(* reference of the value object in `heap`; two dicts that hold the same   *)
(* reference share the value object, as in Python.                         *)
(***************************************************************************)
EXTENDS Integers, Sequences, FiniteSets, TLC

VARIABLES
    pc,                        \* position of the running function
    heap,                      \* reference -> drug entry (a dict object)
    dict1, dict2,              \* arguments of merge_dicts
    merged_dict,               \* value returned by merge_dicts
    graph_a0,                  \* value of dict1 when merge_dicts was called
    drugs_df, pubmed_df, clinical_trials_df,
    pubmed_mentions, clinical_trials_mentions, mentions_dict,
    df_in,                     \* argument of the function called on its own
    df_out,                    \* what that function returned
    resources,                 \* the input files read by start_pipeline
    written                    \* the files written so far, in order

vars == <<pc, heap, dict1, dict2, merged_dict, graph_a0, drugs_df, pubmed_df,
          clinical_trials_df, pubmed_mentions, clinical_trials_mentions,
          mentions_dict, df_in, df_out, resources, written>>

None == "None"

(***************************************************************************)
(* Bounds of the model.                                                    *)
(***************************************************************************)
MaxJournalLen == 2     \* longest `journal` list of an argument of merge_dicts
MaxRows == 2           \* most rows of a publication or trial table
MaxDrugs == 2          \* most rows of the drug table
MaxPubmedRows == 3     \* most rows given to consolidate_pubmed_df
MaxTrialRows == 2      \* most rows given to consolidate_clinical_trials_df
MaxTextLen == 3        \* longest raw drug name or title given to normalize_dfs
MaxDateRows == 3       \* most rows of the column given to format_date
MaxFileRows == 1       \* most rows of an input file of start_pipeline

RECURSIVE SeqsUpTo(_, _)
SeqsUpTo(S, n) ==
    IF n = 0 THEN {<<>>}
    ELSE LET shorter == SeqsUpTo(S, n - 1)
         IN shorter \cup {Append(s, x) : s \in {t \in shorter : Len(t) = n - 1}, x \in S}

(***************************************************************************)
(* Python dicts and the heap.                                              *)
(***************************************************************************)
Range(s) == {s[i] : i \in 1..Len(s)}

\* the value of a dict: key -> entry, read through the heap
Deref(d, h) == [k \in DOMAIN d.ref |-> h[d.ref[k]]]

\* entry[field] = value on a dict object
SetField(entry, field, value) ==
    [f \in DOMAIN entry \cup {field} |-> IF f = field THEN value ELSE entry[f]]

\* d[key] = value on a mapping key -> entry kept with its insertion order
DictSet(d, key, value) ==
    [keys |-> IF key \in Range(d.keys) THEN d.keys ELSE Append(d.keys, key),
     val  |-> [k \in DOMAIN d.val \cup {key} |-> IF k = key THEN value ELSE d.val[k]]]

\* the dict object of a freshly built mapping: one new entry object per key
NewDict(tag, d) == [keys |-> d.keys, ref |-> [k \in DOMAIN d.val |-> <<tag, k>>]]

NewObjects(tag, d) == [r \in {<<tag, k>> : k \in DOMAIN d.val} |-> d.val[r[2]]]

(***************************************************************************)
(* find_mentions_in_publications (utils.py 173-210).                       *)
(***************************************************************************)
\* a prefix test in place of the substring test
Contains_Prefix(sub, text) ==
    Len(sub) <= Len(text) /\ SubSeq(text, 1, Len(sub)) = sub

\* Python `sub in text` on two strings
Contains(sub, text) ==
    \E i \in 0..(Len(text) - Len(sub)) : SubSeq(text, i + 1, i + Len(sub)) = sub

PubMention(pub_row) ==
    [publication_id |-> pub_row.id, title |-> pub_row.title,
     date_mention |-> pub_row.date_mention, journal |-> pub_row.journal]

JournalMention(pub_row) ==
    [date_mention |-> pub_row.date_mention, journal |-> pub_row.journal]

\* the inner loop over pub_df.iterrows() for one drug row
RECURSIVE PubLoop(_, _, _, _, _)
PubLoop(drug_row, pub_df, i, pub_mention, journal_mention) ==
    IF i > Len(pub_df)
    THEN [pub_mention |-> pub_mention, journal_mention |-> journal_mention]
    ELSE IF Contains(drug_row.drug, pub_df[i].title)
         THEN PubLoop(drug_row, pub_df, i + 1,
                      Append(pub_mention, PubMention(pub_df[i])),
                      Append(journal_mention, JournalMention(pub_df[i])))
         ELSE PubLoop(drug_row, pub_df, i + 1, pub_mention, journal_mention)

DrugEntry(drug_row, pub_type, found) ==
    ("code" :> drug_row.atccode) @@ (pub_type :> found.pub_mention)
        @@ ("journal" :> found.journal_mention)

\* the outer loop over drugs_df.iterrows()
RECURSIVE DrugLoop(_, _, _, _, _)
DrugLoop(drugs, pub_df, pub_type, i, result_dict) ==
    IF i > Len(drugs) THEN result_dict
    ELSE DrugLoop(drugs, pub_df, pub_type, i + 1,
                  DictSet(result_dict, drugs[i].drug,
                          DrugEntry(drugs[i], pub_type,
                                    PubLoop(drugs[i], pub_df, 1, <<>>, <<>>))))

find_mentions_in_publications(drugs, pub_df, pub_type) ==
    DrugLoop(drugs, pub_df, pub_type, 1, [keys |-> <<>>, val |-> <<>>])

(***************************************************************************)
(* merge_dicts (utils.py 213-238).                                         *)
(***************************************************************************)
\* the two lists concatenated the other way round
CombinedJournal_Swapped(merged_journal, value_journal) == value_journal \o merged_journal

CombinedJournal(merged_journal, value_journal) == merged_journal \o value_journal

Identifier(entry) == <<entry["date_mention"], entry["journal"]>>

\* the loop without its `seen` test
UniqueJournal_KeepAll(combined_journal, i, unique_journal, seen) == combined_journal

RECURSIVE UniqueJournal(_, _, _, _)
UniqueJournal(combined_journal, i, unique_journal, seen) ==
    IF i > Len(combined_journal) THEN unique_journal
    ELSE IF Identifier(combined_journal[i]) \notin seen
         THEN UniqueJournal(combined_journal, i + 1,
                            Append(unique_journal, combined_journal[i]),
                            seen \cup {Identifier(combined_journal[i])})
         ELSE UniqueJournal(combined_journal, i + 1, unique_journal, seen)

\* the list of dict2 appended to the list the entry holds
SetClinicalTrials_Append(entry, value) ==
    IF "clinical_trials" \in DOMAIN value
    THEN SetField(entry, "clinical_trials",
                  (IF "clinical_trials" \in DOMAIN entry
                   THEN entry["clinical_trials"] ELSE <<>>) \o value["clinical_trials"])
    ELSE entry

\* the list of dict2 taken over only when it is not empty
SetClinicalTrials_IfTruthy(entry, value) ==
    IF "clinical_trials" \in DOMAIN value /\ value["clinical_trials"] # <<>>
    THEN SetField(entry, "clinical_trials", value["clinical_trials"])
    ELSE entry

\* lines 227-228 on the entry object the result holds under the key
SetClinicalTrials(entry, value) ==
    IF "clinical_trials" \in DOMAIN value
    THEN SetField(entry, "clinical_trials", value["clinical_trials"])
    ELSE entry

\* lines 229-237 on the same entry object
SetJournal(entry, value) ==
    SetField(entry, "journal",
             UniqueJournal(CombinedJournal(entry["journal"], value["journal"]),
                           1, <<>>, {}))

\* merged_dict.setdefault(key, value) in place of merged_dict[key]: a key the
\* result does not hold is added with dict2's entry
RECURSIVE MergeLoop_AddMissing(_, _, _, _)
MergeLoop_AddMissing(merged, d2, i, h) ==
    IF i > Len(d2.keys) THEN [raised |-> FALSE, merged_dict |-> merged, heap |-> h]
    ELSE LET key == d2.keys[i]
             value == h[d2.ref[key]]
             held == IF key \in DOMAIN merged.ref THEN merged
                     ELSE [keys |-> Append(merged.keys, key),
                           ref |-> merged.ref @@ (key :> d2.ref[key])]
             r == held.ref[key]
             h1 == [h EXCEPT ![r] = SetClinicalTrials(@, value)]
             h2 == [h1 EXCEPT ![r] = SetJournal(@, value)]
         IN MergeLoop_AddMissing(held, d2, i + 1, h2)

\* the loop over dict2.items(); merged_dict[key] of a key the result does not
\* hold raises KeyError, which leaves the loop with the heap as it is by then
RECURSIVE MergeLoop(_, _, _, _)
MergeLoop(merged, d2, i, h) ==
    IF i > Len(d2.keys) THEN [raised |-> FALSE, merged_dict |-> merged, heap |-> h]
    ELSE LET key == d2.keys[i]
             value == h[d2.ref[key]]
         IN IF key \notin DOMAIN merged.ref
            THEN [raised |-> TRUE, merged_dict |-> None, heap |-> h]
            ELSE LET r == merged.ref[key]
                     h1 == [h EXCEPT ![r] = SetClinicalTrials(@, value)]
                     h2 == [h1 EXCEPT ![r] = SetJournal(@, value)]
                 IN MergeLoop(merged, d2, i + 1, h2)

\* dict1.copy() is a new dict object holding the references dict1 holds
ShallowCopy(d) == [keys |-> d.keys, ref |-> d.ref]

merge_dicts(d1, d2, h) == MergeLoop(ShallowCopy(d1), d2, 1, h)

(***************************************************************************)
(* Cells and texts.  A cell is <<"str", text>>, <<"int", n>> or NaN; a     *)
(* text is a tuple of characters, a character outside ASCII is written by  *)
(* its code point.                                                         *)
(***************************************************************************)
NaN == <<"nan">>

Str(text) == <<"str", text>>

Int_(n) == <<"int", n>>

IsStr(cell) == cell[1] = "str"

E_ACUTE == "U+00E9"

CAPITAL_E_ACUTE == "U+00C9"

COMBINING_ACUTE == "U+0301"

TRADE_MARK == "U+2122"

\* str.lower() on one character
Lower(c) ==
    CASE c = "A" -> "a"
      [] c = "B" -> "b"
      [] c = "E" -> "e"
      [] c = CAPITAL_E_ACUTE -> E_ACUTE
      [] OTHER -> c

IsSpace(c) == c = " "

RECURSIVE LStrip(_)
LStrip(text) ==
    IF text # <<>> /\ IsSpace(Head(text)) THEN LStrip(Tail(text)) ELSE text

RECURSIVE RStrip(_)
RStrip(text) ==
    IF text # <<>> /\ IsSpace(text[Len(text)])
    THEN RStrip(SubSeq(text, 1, Len(text) - 1))
    ELSE text

\* str.strip()
Strip(text) == RStrip(LStrip(text))

\* str.lower()
LowerText(text) == [i \in 1..Len(text) |-> Lower(text[i])]

\* str.replace(old, ""): the occurrences of old are removed from left to right
RECURSIVE Remove(_, _)
Remove(text, old) ==
    IF Len(text) < Len(old) THEN text
    ELSE IF SubSeq(text, 1, Len(old)) = old
         THEN Remove(SubSeq(text, Len(old) + 1, Len(text)), old)
         ELSE <<Head(text)>> \o Remove(Tail(text), old)

\* unicodedata.normalize("NFD", c) of one character
NFD(c) ==
    CASE c = E_ACUTE -> <<"e", COMBINING_ACUTE>>
      [] c = CAPITAL_E_ACUTE -> <<"E", COMBINING_ACUTE>>
      [] OTHER -> <<c>>

\* unicodedata.category(c) = "Mn"
IsMn(c) == c = COMBINING_ACUTE

RECURSIVE remove_accents(_)
remove_accents(text) ==
    IF text = <<>> THEN <<>>
    ELSE SelectSeq(NFD(Head(text)), LAMBDA c : ~IsMn(c)) \o remove_accents(Tail(text))

\* the literal "\\xc3\\xb1": a backslash, x, c, 3, a backslash, x, b, 1
XC3_XB1 == <<"\\", "x", "c", "3", "\\", "x", "b", "1">>

XC3_X28 == <<"\\", "x", "c", "3", "\\", "x", "2", "8">>

DeleteCharsCell(cell) ==
    IF IsStr(cell)
    THEN Str(remove_accents(Remove(Remove(Remove(cell[2], XC3_XB1), XC3_X28),
                                   <<TRADE_MARK>>)))
    ELSE cell

\* df.map: every cell of every column
delete_chars(table) ==
    [i \in 1..Len(table) |->
        [col \in DOMAIN table[i] |-> DeleteCharsCell(table[i][col])]]

LowerStripCell(cell) == IF IsStr(cell) THEN Str(Strip(LowerText(cell[2]))) ELSE cell

lower_strip_df(table) ==
    [i \in 1..Len(table) |->
        [col \in DOMAIN table[i] |-> LowerStripCell(table[i][col])]]

(***************************************************************************)
(* format_date (utils.py 101-113).  A date string is the cell              *)
(* <<"date", form, f1, f2, f3>>: its form and its three numbers in the     *)
(* order they are written.                                                 *)
(***************************************************************************)
IsDateString(cell) == cell[1] = "date"

NaT == <<"NaT">>

\* pd.to_datetime(..., format="mixed") on one cell: a date, NaT, or no result
ToDatetime(cell) ==
    IF cell = NaN THEN [ok |-> TRUE, value |-> NaT]
    ELSE IF ~IsDateString(cell) THEN [ok |-> FALSE, value |-> NaT]
    ELSE LET form == cell[2]
             ymd == CASE form = "iso" -> <<cell[3], cell[4], cell[5]>>
                      [] form = "dot" -> <<cell[3], cell[4], cell[5]>>
                      [] form = "text" -> <<cell[5], cell[3], cell[4]>>
                      [] form = "slash" ->
                            IF cell[3] <= 12
                            THEN <<cell[5], cell[3], cell[4]>>
                            ELSE <<cell[5], cell[4], cell[3]>>
         IN IF ymd[2] \in 1..12 /\ ymd[3] \in 1..31
            THEN [ok |-> TRUE, value |-> ymd]
            ELSE [ok |-> FALSE, value |-> NaT]

DigitChars == <<"0", "1", "2", "3", "4", "5", "6", "7", "8", "9">>

Digit(n) == DigitChars[n + 1]

\* .astype(str) of a datetime: YYYY-MM-DD, and "NaT" for a missing one
DatetimeToStr(value) ==
    IF value = NaT THEN Str(<<"N", "a", "T">>)
    ELSE Str(<<Digit(value[1] \div 1000), Digit((value[1] \div 100) % 10),
               Digit((value[1] \div 10) % 10), Digit(value[1] % 10), "-",
               Digit(value[2] \div 10), Digit(value[2] % 10), "-",
               Digit(value[3] \div 10), Digit(value[3] % 10)>>)

\* raises when a cell of the column is no date
\* errors="coerce": a value that is no date becomes NaT
format_date_Coerce(table, column) ==
    [error |-> None,
     df |-> [i \in 1..Len(table) |->
               [table[i] EXCEPT
                   ![column] = DatetimeToStr(ToDatetime(table[i][column]).value)]]]

format_date(table, column) ==
    IF \E i \in 1..Len(table) : ~ToDatetime(table[i][column]).ok
    THEN [error |-> "ValueError", df |-> None]
    ELSE [error |-> None,
          df |-> [i \in 1..Len(table) |->
                    [table[i] EXCEPT
                        ![column] = DatetimeToStr(ToDatetime(table[i][column]).value)]]]

(***************************************************************************)
(* consolidate_pubmed_df (utils.py 142-154).                               *)
(***************************************************************************)
\* the dtype of a column is object when it is empty or holds a string; the
\* .str accessor raises AttributeError on any other column
IsObjectColumn(table, column) ==
    table = <<>> \/ \E i \in 1..Len(table) : IsStr(table[i][column])

\* the mask without the strip
IdNotBlank_NoStrip(cell) == IsStr(cell) => cell[2] # <<>>

\* the mask df["id"].str.strip() != "": a cell that is no string gives NaN,
\* which is different from ""
IdNotBlank(cell) == IsStr(cell) => Strip(cell[2]) # <<>>

IsDigit(c) == \E n \in 0..9 : Digit(n) = c

RECURSIVE DigitsValue(_)
DigitsValue(text) ==
    IF text = <<>> THEN 0
    ELSE 10 * DigitsValue(SubSeq(text, 1, Len(text) - 1))
            + (CHOOSE n \in 0..9 : Digit(n) = text[Len(text)])

\* int() of one cell of an object column, as astype("int") applies it
CanCastInt(cell) ==
    \/ cell[1] = "int"
    \/ /\ IsStr(cell)
       /\ Strip(cell[2]) # <<>>
       /\ \A i \in 1..Len(Strip(cell[2])) : IsDigit(Strip(cell[2])[i])

CastInt(cell) == IF cell[1] = "int" THEN cell ELSE Int_(DigitsValue(Strip(cell[2])))

consolidate_pubmed_df(table) ==
    IF ~IsObjectColumn(table, "id") THEN [error |-> "AttributeError", df |-> None]
    ELSE LET df_clean == SelectSeq(table, LAMBDA row : IdNotBlank(row["id"]))
         IN IF \E i \in 1..Len(df_clean) : ~CanCastInt(df_clean[i]["id"])
            THEN [error |-> "ValueError", df |-> None]
            ELSE [error |-> None,
                  df |-> [i \in 1..Len(df_clean) |->
                            [df_clean[i] EXCEPT !["id"] = CastInt(@)]]]

(***************************************************************************)
(* consolidate_clinical_trials_df (utils.py 116-139).                      *)
(***************************************************************************)
\* the characters in code point order
CharOrder ==
    <<" ", "-", "0", "1", "2", "3", "4", "5", "6", "7", "8", "9", "A", "B", "E",
      "N", "T", "\\", "_", "a", "b", "c", "d", "e", "i", "l", "m", "n", "p", "r",
      "s", "t", "u", "x", CAPITAL_E_ACUTE, E_ACUTE, COMBINING_ACUTE, TRADE_MARK>>

CharRank(c) == CHOOSE i \in 1..Len(CharOrder) : CharOrder[i] = c

RECURSIVE TextLess(_, _)
TextLess(a, b) ==
    IF b = <<>> THEN FALSE
    ELSE IF a = <<>> THEN TRUE
    ELSE IF Head(a) = Head(b) THEN TextLess(Tail(a), Tail(b))
    ELSE CharRank(Head(a)) < CharRank(Head(b))

GroupKey(row) == <<row["title"], row["date_mention"], row["article_type"]>>

RECURSIVE KeyLess(_, _)
KeyLess(k1, k2) ==
    IF k1 = <<>> THEN FALSE
    ELSE IF Head(k1) = Head(k2) THEN KeyLess(Tail(k1), Tail(k2))
    ELSE TextLess(Head(k1)[2], Head(k2)[2])

\* groupby drops the rows with a missing key cell (dropna=True)
GroupKeys(table) ==
    {GroupKey(table[i]) : i \in {j \in 1..Len(table) : NaN \notin Range(GroupKey(table[j]))}}

\* groupby sorts the groups by key (sort=True)
RECURSIVE SortedKeys(_)
SortedKeys(keys) ==
    IF keys = {} THEN <<>>
    ELSE LET least == CHOOSE k \in keys : \A o \in keys \ {k} : KeyLess(k, o)
         IN <<least>> \o SortedKeys(keys \ {least})

\* the value of the first row of the group, missing or not
First_OfFirstRow(table, key, column) ==
    table[CHOOSE i \in 1..Len(table) :
            /\ GroupKey(table[i]) = key
            /\ \A j \in 1..(i - 1) : GroupKey(table[j]) # key][column]

\* the "first" aggregation: the first value of the group that is not missing
First(table, key, column) ==
    LET present == {i \in 1..Len(table) :
                        GroupKey(table[i]) = key /\ table[i][column] # NaN}
    IN IF present = {} THEN NaN
       ELSE table[CHOOSE i \in present : \A j \in present : i <= j][column]

consolidate_clinical_trials_df(table) ==
    LET keys == SortedKeys(GroupKeys(table))
    IN [g \in 1..Len(keys) |->
          [title |-> keys[g][1], date_mention |-> keys[g][2],
           article_type |-> keys[g][3],
           id |-> First(table, keys[g], "id"),
           journal |-> First(table, keys[g], "journal")]]

(***************************************************************************)
(* normalize_dfs (main.py 82-118).                                         *)
(***************************************************************************)
PUBMED == Str(<<"p", "u", "b", "m", "e", "d">>)

CLINICAL_TRIALS ==
    Str(<<"c", "l", "i", "n", "i", "c", "a", "l", "_", "t", "r", "i", "a", "l", "s">>)

\* df[column] = value
SetColumn(table, column, value) ==
    [i \in 1..Len(table) |->
        [col \in DOMAIN table[i] \cup {column} |->
            IF col = column THEN value ELSE table[i][col]]]

\* df.rename(columns={old: new})
RenameColumn(table, old, new) ==
    [i \in 1..Len(table) |->
        [col \in (DOMAIN table[i] \ {old}) \cup {new} |->
            IF col = new THEN table[i][old] ELSE table[i][col]]]

normalize_dfs(drugs, pubmed, trials) ==
    LET drugs1 == lower_strip_df(drugs)
        pubmed1 == lower_strip_df(pubmed)
        trials1 == lower_strip_df(trials)
        pubmed2 == format_date(pubmed1, "date")
        trials2 == format_date(trials1, "date")
        pubmed3 == RenameColumn(SetColumn(pubmed2.df, "article_type", PUBMED),
                                "date", "date_mention")
        trials3 == RenameColumn(
                       RenameColumn(SetColumn(trials2.df, "article_type", CLINICAL_TRIALS),
                                    "scientific_title", "title"),
                       "date", "date_mention")
        trials4 == delete_chars(trials3)
        pubmed4 == consolidate_pubmed_df(delete_chars(pubmed3))
    IN IF pubmed2.error # None THEN [error |-> pubmed2.error, dfs |-> None]
       ELSE IF trials2.error # None THEN [error |-> trials2.error, dfs |-> None]
       ELSE IF pubmed4.error # None THEN [error |-> pubmed4.error, dfs |-> None]
       ELSE [error |-> None,
             dfs |-> [drugs_df |-> drugs1, pubmed_df |-> pubmed4.df,
                      clinical_trials_df |-> consolidate_clinical_trials_df(trials4)]]

(***************************************************************************)
(* Inputs of the model.                                                    *)
(***************************************************************************)
JournalPairs ==
    {[date_mention |-> "2022-01-01", journal |-> "ja"],
     [date_mention |-> "2022-03-01", journal |-> "ja"],
     [date_mention |-> "2022-01-01", journal |-> "jb"]}

Titles == {<<"b", "a", "b">>, <<"b", "a">>}

DrugRows ==
    {[drug |-> <<"a">>, atccode |-> "c1"],
     [drug |-> <<"a", "b">>, atccode |-> "c2"],
     [drug |-> <<"b", "b">>, atccode |-> "c3"]}

\* every publication has its own id
PubId(prefix, title) == <<prefix, Len(title)>>

PubRows(prefix, titles) ==
    {[id |-> PubId(prefix, t), title |-> t, date_mention |-> j.date_mention,
      journal |-> j.journal] :
        t \in titles, j \in {p \in JournalPairs : p.journal = "ja"}}

PubmedRows == PubRows("pm", Titles)

\* one trial more under the longer title
ClinicalTrialRows ==
    PubRows("nct", {<<"b", "a", "b">>})
        \cup {r \in PubRows("nct", {<<"b", "a">>}) : r.date_mention = "2022-01-01"}

Mention1 == [publication_id |-> <<"pm", 2>>, title |-> <<"b", "a">>,
             date_mention |-> "2022-01-01", journal |-> "ja"]

Mention2 == [publication_id |-> <<"nct", 3>>, title |-> <<"b", "a", "b">>,
             date_mention |-> "2022-03-01", journal |-> "jb"]

\* a field that an entry may lack
Optional(field, values) == {<<>>} \cup {field :> v : v \in values}

JournalLists == SeqsUpTo(JournalPairs, MaxJournalLen)

DrugA == <<"a">>

DrugB == <<"b", "b">>

EntriesOfA(key) ==
    IF key = DrugA
    THEN {("journal" :> j) @@ p @@ c :
            j \in JournalLists,
            p \in Optional("pubmed", {<<Mention1>>}),
            c \in Optional("clinical_trials", {<<Mention1>>})}
    ELSE {"journal" :> <<>>,
          ("journal" :> <<CHOOSE p \in JournalPairs : p.journal = "jb">>)
              @@ ("pubmed" :> <<Mention1>>)}

EntriesOfB(key) ==
    IF key = DrugA
    THEN {("journal" :> j) @@ c :
            j \in JournalLists,
            c \in Optional("clinical_trials", {<<>>, <<Mention2>>})}
    ELSE {"journal" :> <<>>,
          ("journal" :> <<CHOOSE p \in JournalPairs : p.journal = "jb">>)
              @@ ("pubmed" :> <<Mention2>>) @@ ("clinical_trials" :> <<Mention2>>)}

Graphs(keyorders, EntriesOf(_)) ==
    UNION {{[keys |-> ks, val |-> v] :
              v \in {f \in [Range(ks) -> UNION {EntriesOf(k) : k \in Range(ks)}] :
                       \A k \in Range(ks) : f[k] \in EntriesOf(k)}} :
           ks \in keyorders}

GraphsA == Graphs({<<>>, <<DrugA>>, <<DrugB>>, <<DrugA, DrugB>>}, EntriesOfA)

GraphsB ==
    Graphs({<<>>, <<DrugA>>, <<DrugB>>, <<DrugA, DrugB>>, <<DrugB, DrugA>>}, EntriesOfB)

(***************************************************************************)
(* generate_mentions_dict (main.py 121-140), one action per call it makes. *)
(***************************************************************************)
Init ==
    /\ pc = "find_pubmed"
    /\ heap = <<>>
    /\ dict1 = None /\ dict2 = None /\ merged_dict = None /\ graph_a0 = None
    /\ drugs_df \in SeqsUpTo(DrugRows, MaxDrugs)
    /\ pubmed_df \in SeqsUpTo(PubmedRows, MaxRows)
    /\ clinical_trials_df \in SeqsUpTo(ClinicalTrialRows, MaxRows)
    /\ pubmed_mentions = None
    /\ clinical_trials_mentions = None
    /\ mentions_dict = None
    /\ df_in = None /\ df_out = None
    /\ resources = None /\ written = <<>>

FindPubmed ==
    /\ pc = "find_pubmed"
    /\ LET found == find_mentions_in_publications(drugs_df, pubmed_df, "pubmed")
       IN /\ pubmed_mentions' = NewDict("pubmed", found)
          /\ heap' = heap @@ NewObjects("pubmed", found)
    /\ pc' = "find_clinical_trials"
    /\ UNCHANGED <<dict1, dict2, merged_dict, graph_a0, drugs_df, pubmed_df,
                   clinical_trials_df, clinical_trials_mentions, mentions_dict,
                   df_in, df_out, resources, written>>

FindClinicalTrials ==
    /\ pc = "find_clinical_trials"
    /\ LET found == find_mentions_in_publications(drugs_df, clinical_trials_df,
                                                  "clinical_trials")
       IN /\ clinical_trials_mentions' = NewDict("clinical_trials", found)
          /\ heap' = heap @@ NewObjects("clinical_trials", found)
    /\ pc' = "merge"
    /\ UNCHANGED <<dict1, dict2, merged_dict, graph_a0, drugs_df, pubmed_df,
                   clinical_trials_df, pubmed_mentions, mentions_dict, df_in, df_out, resources, written>>

MergeMentions ==
    /\ pc = "merge"
    /\ LET res == merge_dicts(pubmed_mentions, clinical_trials_mentions, heap)
       IN /\ mentions_dict' = res.merged_dict
          /\ heap' = res.heap
          /\ pc' = IF res.raised THEN "KeyError" ELSE "done"
    /\ UNCHANGED <<dict1, dict2, merged_dict, graph_a0, drugs_df, pubmed_df,
                   clinical_trials_df, pubmed_mentions, clinical_trials_mentions,
                   df_in, df_out, resources, written>>

Next == FindPubmed \/ FindClinicalTrials \/ MergeMentions

Spec == Init /\ [][Next]_vars

(***************************************************************************)
(* merge_dicts called on any two graphs.                                   *)
(***************************************************************************)
InitMerge ==
    /\ pc = "merge_dicts"
    /\ \E ga \in GraphsA, gb \in GraphsB :
          /\ dict1 = NewDict("a", ga)
          /\ dict2 = NewDict("b", gb)
          /\ heap = NewObjects("a", ga) @@ NewObjects("b", gb)
    /\ merged_dict = None /\ graph_a0 = None
    /\ drugs_df = None /\ pubmed_df = None /\ clinical_trials_df = None
    /\ pubmed_mentions = None /\ clinical_trials_mentions = None
    /\ mentions_dict = None
    /\ df_in = None /\ df_out = None
    /\ resources = None /\ written = <<>>

MergeDicts ==
    /\ pc = "merge_dicts"
    /\ graph_a0' = Deref(dict1, heap)
    /\ LET res == merge_dicts(dict1, dict2, heap)
       IN /\ merged_dict' = res.merged_dict
          /\ heap' = res.heap
          /\ pc' = IF res.raised THEN "KeyError" ELSE "returned"
    /\ UNCHANGED <<dict1, dict2, drugs_df, pubmed_df, clinical_trials_df,
                   pubmed_mentions, clinical_trials_mentions, mentions_dict,
                   df_in, df_out, resources, written>>

NextMerge == MergeDicts

SpecMerge == InitMerge /\ [][NextMerge]_vars

(***************************************************************************)
(* consolidate_pubmed_df called on any table.                              *)
(***************************************************************************)
IdCells ==
    {Str(<<>>), Str(<<" ">>), Str(<<"1">>), Str(<<"1", "7">>), Str(<<" ", "1">>),
     Str(<<"x">>), Str(<<"1", "x">>), NaN, Int_(3)}

PubmedIdRows == {[id |-> i, title |-> Str(t)] : i \in IdCells, t \in {<<"a">>, <<"b">>}}

OtherVarsUnused ==
    /\ heap = <<>>
    /\ dict1 = None /\ dict2 = None /\ merged_dict = None /\ graph_a0 = None
    /\ drugs_df = None /\ pubmed_df = None /\ clinical_trials_df = None
    /\ pubmed_mentions = None /\ clinical_trials_mentions = None
    /\ mentions_dict = None
    /\ resources = None /\ written = <<>>

mentionVars == <<heap, dict1, dict2, merged_dict, graph_a0, drugs_df, pubmed_df,
                 clinical_trials_df, pubmed_mentions, clinical_trials_mentions,
                 mentions_dict, resources, written>>

InitPubmed ==
    /\ pc = "consolidate_pubmed_df"
    /\ df_in \in SeqsUpTo(PubmedIdRows, MaxPubmedRows)
    /\ df_out = None
    /\ OtherVarsUnused

ConsolidatePubmed ==
    /\ pc = "consolidate_pubmed_df"
    /\ LET res == consolidate_pubmed_df(df_in)
       IN /\ df_out' = res.df
          /\ pc' = IF res.error = None THEN "returned" ELSE res.error
    /\ UNCHANGED <<df_in, mentionVars>>

NextPubmed == ConsolidatePubmed

SpecPubmed == InitPubmed /\ [][NextPubmed]_vars

(***************************************************************************)
(* consolidate_clinical_trials_df called on any table.                     *)
(***************************************************************************)
DATE1 == Str(<<"2", "0", "2", "0", "-", "0", "1", "-", "0", "1">>)

DATE2 == Str(<<"2", "0", "2", "0", "-", "0", "1", "-", "0", "2">>)

TrialKeys ==
    {<<Str(<<"a">>), DATE1>>, <<Str(<<"a">>), DATE2>>, <<Str(<<"b">>), DATE1>>,
     <<NaN, DATE1>>}

TrialRows ==
    {[title |-> k[1], date_mention |-> k[2], article_type |-> CLINICAL_TRIALS,
      id |-> i, journal |-> j] :
        k \in TrialKeys,
        i \in {NaN, Str(<<>>), Str(<<"n", "1">>)},
        j \in {NaN, Str(<<"a">>), Str(<<"b">>)}}

InitTrials ==
    /\ pc = "consolidate_clinical_trials_df"
    /\ df_in \in SeqsUpTo(TrialRows, MaxTrialRows)
    /\ df_out = None
    /\ OtherVarsUnused

ConsolidateClinicalTrials ==
    /\ pc = "consolidate_clinical_trials_df"
    /\ df_out' = consolidate_clinical_trials_df(df_in)
    /\ pc' = "returned"
    /\ UNCHANGED <<df_in, mentionVars>>

NextTrials == ConsolidateClinicalTrials

SpecTrials == InitTrials /\ [][NextTrials]_vars

(***************************************************************************)
(* normalize_dfs called on raw tables of one row each.                     *)
(***************************************************************************)
RawTexts == SeqsUpTo({"A", " ", E_ACUTE, TRADE_MARK}, MaxTextLen)

RawDates == {<<"date", "iso", 2022, 1, 1>>, <<"date", "slash", 1, 2, 2022>>, Str(<<"x">>)}

RawJournal == Str(<<"B">> \o XC3_X28)

RawTrialTitles == {<<"A", " ", TRADE_MARK>>, <<E_ACUTE>> \o XC3_XB1}

InitNormalize ==
    /\ pc = "normalize_dfs"
    /\ \E name \in RawTexts, pubmed_title \in RawTexts,
          trial_title \in RawTrialTitles, date \in RawDates :
          df_in = [drugs_df |-> <<[drug |-> Str(name), atccode |-> Str(<<"A">>)]>>,
                   pubmed_df |-> <<[id |-> Str(<<"1">>), title |-> Str(pubmed_title),
                                    date |-> date, journal |-> RawJournal]>>,
                   clinical_trials_df |->
                       <<[id |-> Str(<<"n", "1">>), scientific_title |-> Str(trial_title),
                          date |-> <<"date", "text", 1, 1, 2020>>,
                          journal |-> RawJournal]>>]
    /\ df_out = None
    /\ OtherVarsUnused

NormalizeDfs ==
    /\ pc = "normalize_dfs"
    /\ LET res == normalize_dfs(df_in.drugs_df, df_in.pubmed_df, df_in.clinical_trials_df)
       IN /\ df_out' = res.dfs
          /\ pc' = IF res.error = None THEN "returned" ELSE res.error
    /\ UNCHANGED <<df_in, mentionVars>>

NextNormalize == NormalizeDfs

SpecNormalize == InitNormalize /\ [][NextNormalize]_vars

(***************************************************************************)
(* format_date called on any column.                                       *)
(***************************************************************************)
DateCells ==
    {<<"date", "iso", 2022, 1, 1>>,        \* "2022-01-01"
     <<"date", "slash", 1, 2, 2022>>,      \* "01/02/2022"
     <<"date", "slash", 25, 12, 2022>>,    \* "25/12/2022"
     <<"date", "slash", 13, 13, 2022>>,    \* "13/13/2022"
     <<"date", "text", 3, 3, 2022>>,       \* "March 3, 2022"
     <<"date", "dot", 2022, 4, 4>>,        \* "2022.04.04"
     Str(<<"x">>),
     NaN}

InitDate ==
    /\ pc = "format_date"
    /\ df_in \in SeqsUpTo({[mixed_dates |-> c] : c \in DateCells}, MaxDateRows)
    /\ df_out = None
    /\ OtherVarsUnused

FormatDate ==
    /\ pc = "format_date"
    /\ LET res == format_date(df_in, "mixed_dates")
       IN /\ df_out' = res.df
          /\ pc' = IF res.error = None THEN "returned" ELSE res.error
    /\ UNCHANGED <<df_in, mentionVars>>

NextDate == FormatDate

SpecDate == InitDate /\ [][NextDate]_vars

(***************************************************************************)
(* start_pipeline (main.py 30-61), one action per stage.                   *)
(***************************************************************************)
RECURSIVE Concat(_)
Concat(dataframes) ==
    IF dataframes = <<>> THEN <<>> ELSE Head(dataframes) \o Concat(Tail(dataframes))

\* utils.py 36-54
concat_dataframes(dataframes) ==
    IF dataframes = <<>> THEN [error |-> "ValueError", df |-> None]
    ELSE [error |-> None, df |-> Concat(dataframes)]

\* main.py 64-79; a file that cannot be read makes read_csv raise
dfs_from_files(files) ==
    IF ~files.readable THEN [error |-> "FileNotFoundError", dfs |-> None]
    ELSE LET concatenated == concat_dataframes(<<files.pubmed_csv, files.pubmed_json>>)
         IN IF concatenated.error # None
            THEN [error |-> concatenated.error, dfs |-> None]
            ELSE [error |-> None,
                  dfs |-> [drugs_df |-> files.drugs,
                           pubmed_df |-> concatenated.df,
                           clinical_trials_df |-> files.clinical_trials]]

\* the text held by the string cells of a column
TextColumn(table, column) ==
    [i \in 1..Len(table) |-> [table[i] EXCEPT ![column] = @[2]]]

\* `drug_row["drug"] in pub_row["title"]` raises when either one is no string
InRaises(drugs, pub_df) ==
    /\ drugs # <<>> /\ pub_df # <<>>
    /\ \/ \E i \in 1..Len(drugs) : ~IsStr(drugs[i].drug)
       \/ \E i \in 1..Len(pub_df) : ~IsStr(pub_df[i].title)

\* main.py 121-140
generate_mentions_dict(drugs, pubmed, trials, h) ==
    IF InRaises(drugs, pubmed) \/ InRaises(drugs, trials)
    THEN [error |-> "TypeError", mentions_dict |-> None, heap |-> h]
    ELSE LET found_pubmed ==
                 find_mentions_in_publications(TextColumn(drugs, "drug"),
                                               TextColumn(pubmed, "title"), "pubmed")
             found_trials ==
                 find_mentions_in_publications(TextColumn(drugs, "drug"),
                                               TextColumn(trials, "title"),
                                               "clinical_trials")
             res == merge_dicts(NewDict("pubmed", found_pubmed),
                                NewDict("clinical_trials", found_trials),
                                h @@ NewObjects("pubmed", found_pubmed)
                                  @@ NewObjects("clinical_trials", found_trials))
         IN [error |-> IF res.raised THEN "KeyError" ELSE None,
             mentions_dict |-> res.merged_dict, heap |-> res.heap]

RESULT_FILE == "src/result/drug_mentions_graph.json"

DrugFileRows ==
    {[atccode |-> Str(<<"C", "1">>), drug |-> Str(<<"A">>)],
     [atccode |-> Str(<<"C", "2">>), drug |-> Str(<<"B", " ">>)]}

PubmedGoodRow ==
    [id |-> Str(<<"1">>), title |-> Str(<<"b", "A">>),
     date |-> <<"date", "iso", 2022, 1, 1>>, journal |-> RawJournal]

PubmedCsvRows ==
    {PubmedGoodRow,
     [PubmedGoodRow EXCEPT !.id = Str(<<" ">>)],
     [PubmedGoodRow EXCEPT !.id = Str(<<"x">>)],
     [PubmedGoodRow EXCEPT !.title = NaN],
     [PubmedGoodRow EXCEPT !.date = Str(<<"x">>)]}

PubmedJsonRows ==
    {[PubmedGoodRow EXCEPT !.id = Str(<<"2">>)],
     [PubmedGoodRow EXCEPT !.id = Str(<<>>)]}

TrialFileRows ==
    {[id |-> Str(<<"n", "1">>), scientific_title |-> Str(<<"A", "b">>),
      date |-> d, journal |-> RawJournal] :
        d \in {<<"date", "text", 1, 1, 2020>>, Str(<<"x">>)}}

\* files that cannot be read have no contents to speak of
Resources ==
    {f \in [readable : BOOLEAN,
            drugs : SeqsUpTo(DrugFileRows, MaxFileRows),
            pubmed_csv : SeqsUpTo(PubmedCsvRows, MaxFileRows),
            pubmed_json : SeqsUpTo(PubmedJsonRows, MaxFileRows),
            clinical_trials : SeqsUpTo(TrialFileRows, MaxFileRows)] :
        ~f.readable => /\ f.drugs = <<>> /\ f.pubmed_csv = <<>>
                       /\ f.pubmed_json = <<>> /\ f.clinical_trials = <<>>}

InitPipeline ==
    /\ pc = "dfs_from_files"
    /\ resources \in Resources
    /\ written = <<>>
    /\ heap = <<>>
    /\ dict1 = None /\ dict2 = None /\ merged_dict = None /\ graph_a0 = None
    /\ drugs_df = None /\ pubmed_df = None /\ clinical_trials_df = None
    /\ pubmed_mentions = None /\ clinical_trials_mentions = None
    /\ mentions_dict = None
    /\ df_in = None /\ df_out = None

stageVars == <<dict1, dict2, merged_dict, graph_a0, pubmed_mentions,
               clinical_trials_mentions, df_in, df_out, resources>>

\* main.py 52
LoadFiles ==
    /\ pc = "dfs_from_files"
    /\ LET res == dfs_from_files(resources)
       IN IF res.error = None
          THEN /\ drugs_df' = res.dfs.drugs_df
               /\ pubmed_df' = res.dfs.pubmed_df
               /\ clinical_trials_df' = res.dfs.clinical_trials_df
               /\ pc' = "normalize_dfs"
          ELSE /\ pc' = res.error
               /\ UNCHANGED <<drugs_df, pubmed_df, clinical_trials_df>>
    /\ UNCHANGED <<stageVars, heap, mentions_dict, written>>

\* main.py 53
NormalizeTables ==
    /\ pc = "normalize_dfs"
    /\ LET res == normalize_dfs(drugs_df, pubmed_df, clinical_trials_df)
       IN IF res.error = None
          THEN /\ drugs_df' = res.dfs.drugs_df
               /\ pubmed_df' = res.dfs.pubmed_df
               /\ clinical_trials_df' = res.dfs.clinical_trials_df
               /\ pc' = "generate_mentions_dict"
          ELSE /\ pc' = res.error
               /\ UNCHANGED <<drugs_df, pubmed_df, clinical_trials_df>>
    /\ UNCHANGED <<stageVars, heap, mentions_dict, written>>

\* main.py 54
GenerateMentions ==
    /\ pc = "generate_mentions_dict"
    /\ LET res == generate_mentions_dict(drugs_df, pubmed_df, clinical_trials_df, heap)
       IN /\ mentions_dict' = res.mentions_dict
          /\ heap' = res.heap
          /\ pc' = IF res.error = None THEN "write_dict_to_json" ELSE res.error
    /\ UNCHANGED <<stageVars, drugs_df, pubmed_df, clinical_trials_df, written>>

\* main.py 61 and utils.py 157-170; open() raises when the file cannot be
\* created
WriteDict ==
    /\ pc = "write_dict_to_json"
    /\ \E opened \in BOOLEAN :
          IF opened
          THEN /\ written' = Append(written, [filename |-> RESULT_FILE,
                                              content |-> Deref(mentions_dict, heap)])
               /\ pc' = "finished"
          ELSE /\ written' = written
               /\ pc' = "OSError"
    /\ UNCHANGED <<stageVars, heap, drugs_df, pubmed_df, clinical_trials_df,
                   mentions_dict>>

NextPipeline == LoadFiles \/ NormalizeTables \/ GenerateMentions \/ WriteDict

SpecPipeline == InitPipeline /\ [][NextPipeline]_vars

(***************************************************************************)
(* Properties.                                                             *)
(***************************************************************************)
\* the n-th smallest element of a set of positions
NthOf(S, n) == CHOOSE i \in S : Cardinality({j \in S : j < i}) = n - 1

\* name occurs in title at some offset, character by character
OccursIn(name, title) ==
    \E off \in 0..Len(title) :
        /\ off + Len(name) <= Len(title)
        /\ \A c \in 1..Len(name) : title[off + c] = name[c]

NoRepeatedPair(journal) ==
    \A i, j \in 1..Len(journal) :
        (/\ journal[i]["date_mention"] = journal[j]["date_mention"]
         /\ journal[i]["journal"] = journal[j]["journal"]) => i = j

FinalEntry(drug) == heap[mentions_dict.ref[drug]]

\* C1: in the graph generate_mentions_dict returns, no drug entry's `journal`
\* list holds two elements with the same (date_mention, journal) pair.
C1_JournalDeduplicated ==
    pc = "done" =>
        \A drug \in DOMAIN mentions_dict.ref : NoRepeatedPair(FinalEntry(drug)["journal"])

\* a drug mentioned under the same (date, journal) pair more than once
C1_Witness ==
    /\ pc = "done"
    /\ \E drug \in DOMAIN mentions_dict.ref :
          /\ Len(FinalEntry(drug)["pubmed"]) >= 1
          /\ Len(FinalEntry(drug)["clinical_trials"]) >= 1
          /\ Len(FinalEntry(drug)["journal"]) <
                Len(FinalEntry(drug)["pubmed"]) + Len(FinalEntry(drug)["clinical_trials"])

\* C2: after merge_dicts returns, graph_a equals its value before the call.
C2_GraphAUnchanged ==
    pc = "returned" => Deref(dict1, heap) = graph_a0

\* positions of a list whose (date_mention, journal) pair occurs at no earlier one
FirstSeenPositions(s) ==
    {i \in 1..Len(s) :
        \A j \in 1..(i - 1) :
            \/ s[j]["date_mention"] # s[i]["date_mention"]
            \/ s[j]["journal"] # s[i]["journal"]}

IsFirstSeenOf(r, s) ==
    /\ Len(r) = Cardinality(FirstSeenPositions(s))
    /\ \A n \in 1..Len(r) : r[n] = s[NthOf(FirstSeenPositions(s), n)]

MergedEntry(key) == heap[merged_dict.ref[key]]

\* C3: for a key of both graphs, the merged `journal` list is graph_a's list
\* followed by graph_b's list, with every entry whose pair occurred earlier removed.
C3_JournalFirstSeenOrder ==
    pc = "returned" =>
        \A key \in DOMAIN dict1.ref \cap DOMAIN dict2.ref :
            IsFirstSeenOf(MergedEntry(key)["journal"],
                          graph_a0[key]["journal"] \o heap[dict2.ref[key]]["journal"])

\* both lists contribute, and a repeat has been removed
C3_Witness ==
    /\ pc = "returned"
    /\ \E key \in DOMAIN dict1.ref \cap DOMAIN dict2.ref :
          LET a == graph_a0[key]["journal"]
              b == heap[dict2.ref[key]]["journal"]
              r == MergedEntry(key)["journal"]
          IN /\ Len(a) >= 1 /\ Len(b) >= 1
             /\ Len(r) >= 2 /\ Len(r) < Len(a) + Len(b)
             /\ r[Len(r)] \notin Range(a)

\* C4: a `clinical_trials` list of graph_b overwrites the one of the result, and
\* the `pubmed` lists of the result are those of graph_a.
C4_ClinicalTrialsOverwritePubmedKept ==
    pc = "returned" =>
        /\ \A key \in DOMAIN dict2.ref :
              "clinical_trials" \in DOMAIN heap[dict2.ref[key]] =>
                  /\ "clinical_trials" \in DOMAIN MergedEntry(key)
                  /\ MergedEntry(key)["clinical_trials"] =
                        heap[dict2.ref[key]]["clinical_trials"]
        /\ \A key \in DOMAIN merged_dict.ref :
              /\ "pubmed" \in DOMAIN MergedEntry(key) <=> "pubmed" \in DOMAIN graph_a0[key]
              /\ "pubmed" \in DOMAIN graph_a0[key] =>
                    MergedEntry(key)["pubmed"] = graph_a0[key]["pubmed"]

\* graph_a held a non-empty `clinical_trials` list and a `pubmed` list under a
\* key for which graph_b carries another `clinical_trials` list
C4_Witness ==
    /\ pc = "returned"
    /\ \E key \in DOMAIN dict2.ref :
          /\ "clinical_trials" \in DOMAIN heap[dict2.ref[key]]
          /\ "clinical_trials" \in DOMAIN graph_a0[key]
          /\ "pubmed" \in DOMAIN graph_a0[key]
          /\ graph_a0[key]["clinical_trials"] # <<>>
          /\ heap[dict2.ref[key]]["clinical_trials"] # <<>>
          /\ graph_a0[key]["clinical_trials"] # heap[dict2.ref[key]]["clinical_trials"]

\* positions of the records whose title holds the drug name
MentionPositions(drug, df) == {i \in 1..Len(df) : OccursIn(drug, df[i].title)}

MentionsAsClaimed(d, df, pub_type) ==
    \A drug \in DOMAIN d.ref :
        LET entry == heap[d.ref[drug]]
            at == MentionPositions(drug, df)
        IN /\ Len(entry[pub_type]) = Cardinality(at)
           /\ \A n \in 1..Len(entry[pub_type]) :
                 LET row == df[NthOf(at, n)]
                 IN entry[pub_type][n] =
                        [publication_id |-> row.id, title |-> row.title,
                         date_mention |-> row.date_mention, journal |-> row.journal]
           /\ Len(entry["journal"]) = Len(entry[pub_type])
           /\ \A n \in 1..Len(entry["journal"]) :
                 entry["journal"][n] =
                     [date_mention |-> entry[pub_type][n].date_mention,
                      journal |-> entry[pub_type][n].journal]

\* C5: the mention list find_mentions_in_publications stores for a drug is the
\* subsequence, in record order, of the records whose title contains the drug
\* name, and the `journal` list is its (date_mention, journal) projection.
C5_MentionsAreMatchingRecords ==
    /\ pc \in {"find_clinical_trials", "merge"} =>
          MentionsAsClaimed(pubmed_mentions, pubmed_df, "pubmed")
    /\ pc = "merge" =>
          MentionsAsClaimed(clinical_trials_mentions, clinical_trials_df,
                            "clinical_trials")

\* a drug whose name is inside the second title and not in the first
C5_Witness ==
    /\ pc = "find_clinical_trials"
    /\ Len(pubmed_df) = 2
    /\ \E drug \in DOMAIN pubmed_mentions.ref :
          /\ ~OccursIn(drug, pubmed_df[1].title)
          /\ OccursIn(drug, pubmed_df[2].title)
          /\ drug # SubSeq(pubmed_df[2].title, 1, Len(drug))
          /\ Len(heap[pubmed_mentions.ref[drug]]["pubmed"]) = 1

Mentioned(drug) ==
    \/ \E i \in 1..Len(pubmed_df) : OccursIn(drug, pubmed_df[i].title)
    \/ \E i \in 1..Len(clinical_trials_df) : OccursIn(drug, clinical_trials_df[i].title)

\* C6: every drug of the drug table is a key of the final graph with its code,
\* and a drug no title mentions has empty `pubmed`, `clinical_trials`, `journal`.
C6_EveryDrugPresent ==
    pc = "done" =>
        \A i \in 1..Len(drugs_df) :
            LET drug == drugs_df[i].drug
            IN /\ drug \in DOMAIN mentions_dict.ref
               /\ "code" \in DOMAIN FinalEntry(drug)
               /\ ~Mentioned(drug) =>
                     \A f \in {"pubmed", "clinical_trials", "journal"} :
                         /\ f \in DOMAIN FinalEntry(drug)
                         /\ FinalEntry(drug)[f] = <<>>

\* a drug no title mentions, next to a drug that is mentioned
C6_Witness ==
    /\ pc = "done"
    /\ Len(pubmed_df) >= 1 /\ Len(clinical_trials_df) >= 1
    /\ \E i, j \in 1..Len(drugs_df) :
          /\ ~Mentioned(drugs_df[i].drug)
          /\ Mentioned(drugs_df[j].drug)

\* the normalization in the order the claim gives: controlled substrings and
\* trademark removed, diacritics removed, then lowercased and trimmed
FullyNormalized(text) ==
    Strip(LowerText(remove_accents(
        Remove(Remove(Remove(text, XC3_XB1), XC3_X28), <<TRADE_MARK>>))))

Trimmed(cell) ==
    IsStr(cell) /\ cell[2] # <<>> => cell[2][1] # " " /\ cell[2][Len(cell[2])] # " "

\* C7: normalize_dfs applies the whole text normalization to the string cells
\* of the three tables, drug names included, and no normalized string cell has
\* leading or trailing whitespace.
C7_UniformNormalization ==
    pc = "returned" =>
        /\ df_out.drugs_df[1]["drug"] =
              Str(FullyNormalized(df_in.drugs_df[1]["drug"][2]))
        /\ df_out.pubmed_df[1]["title"] =
              Str(FullyNormalized(df_in.pubmed_df[1]["title"][2]))
        /\ df_out.clinical_trials_df[1]["title"] =
              Str(FullyNormalized(df_in.clinical_trials_df[1]["scientific_title"][2]))
        /\ \A t \in DOMAIN df_out : \A i \in 1..Len(df_out[t]) :
              \A col \in DOMAIN df_out[t][i] : Trimmed(df_out[t][i][col])

IsBlankString(cell) == IsStr(cell) /\ \A i \in 1..Len(cell[2]) : cell[2][i] = " "

\* digits between optional runs of blanks
IsIntegerLiteral(text) ==
    \E first \in 1..Len(text) : \E last \in first..Len(text) :
        /\ \A i \in 1..Len(text) :
              IF i \in first..last THEN text[i] \in Range(DigitChars) ELSE text[i] = " "

RECURSIVE ReadDigits(_, _)
ReadDigits(text, acc) ==
    IF text = <<>> THEN acc
    ELSE IF Head(text) = " " THEN ReadDigits(Tail(text), acc)
    ELSE ReadDigits(Tail(text), 10 * acc + CharRank(Head(text)) - CharRank("0"))

ParsesAsInteger(cell) == cell[1] = "int" \/ (IsStr(cell) /\ IsIntegerLiteral(cell[2]))

IntegerOf(cell) == IF cell[1] = "int" THEN cell[2] ELSE ReadDigits(cell[2], 0)

NotBlankPositions(table) == {i \in 1..Len(table) : ~IsBlankString(table[i]["id"])}

HoldsAString(table) == \E i \in 1..Len(table) : IsStr(table[i]["id"])

\* C8 (as amended): consolidate_pubmed_df excludes, without raising, the rows
\* whose id is a blank string.  A remaining id that is missing or does not
\* parse as an integer makes the call raise, as does a non-empty id column
\* that holds no string; otherwise all other rows are returned, in order, with
\* id coerced to an integer.
C8_BlankIdsDroppedOthersCoerced ==
    pc # "consolidate_pubmed_df" =>
        LET kept == NotBlankPositions(df_in)
        IN /\ pc = "AttributeError" <=> (df_in # <<>> /\ ~HoldsAString(df_in))
           /\ pc = "ValueError" <=>
                 (HoldsAString(df_in) /\ \E i \in kept : ~ParsesAsInteger(df_in[i]["id"]))
           /\ pc = "returned" =>
                 /\ Len(df_out) = Cardinality(kept)
                 /\ \A n \in 1..Len(df_out) :
                       LET row == df_in[NthOf(kept, n)]
                       IN /\ df_out[n]["id"] = <<"int", IntegerOf(row["id"])>>
                          /\ df_out[n]["title"] = row["title"]

\* a blank id dropped between two rows that are kept and coerced
C8_Witness ==
    /\ pc = "returned"
    /\ Len(df_in) = 3 /\ Len(df_out) = 2
    /\ IsBlankString(df_in[2]["id"]) /\ df_in[2]["id"] # Str(<<>>)
    /\ IsStr(df_in[1]["id"]) /\ df_in[3]["id"] = Str(<<"1", "7">>)
    /\ df_out[2]["id"] = <<"int", 17>>

ParseablePositions(table) ==
    {i \in 1..Len(table) : ParsesAsInteger(table[i]["id"])}

\* C8: consolidate_pubmed_df never raises; it excludes the rows whose id is
\* blank, missing or not parseable and returns the others with an integer id.
C8_UnparseableIdsExcluded ==
    pc # "consolidate_pubmed_df" =>
        /\ pc = "returned"
        /\ Len(df_out) = Cardinality(ParseablePositions(df_in))
        /\ \A n \in 1..Len(df_out) :
              df_out[n]["id"] =
                  <<"int", IntegerOf(df_in[NthOf(ParseablePositions(df_in), n)]["id"])>>

SameKey(row1, row2) ==
    /\ row1["title"] = row2["title"]
    /\ row1["date_mention"] = row2["date_mention"]
    /\ row1["article_type"] = row2["article_type"]

\* C9: consolidate_clinical_trials_df returns no more rows than it receives,
\* and exactly one row for each distinct (title, date_mention, article_type)
\* key of its input.
C9_OneRowPerDistinctKey ==
    pc = "returned" =>
        /\ Len(df_out) <= Len(df_in)
        /\ \A i \in 1..Len(df_in) :
              Cardinality({g \in 1..Len(df_out) : SameKey(df_out[g], df_in[i])}) = 1
        /\ \A g \in 1..Len(df_out) : \E i \in 1..Len(df_in) : SameKey(df_out[g], df_in[i])

GroupOf(row) == {i \in 1..Len(df_in) : SameKey(df_in[i], row)}

\* C10 (as amended): the row kept for several rows of one key carries, for
\* `id` and for `journal` each on its own, the first value of the group that
\* is not missing (an empty string is a value), and a missing value only when
\* every row of the group misses it.
C10_FirstPresentValuePerColumn ==
    pc = "returned" =>
        \A g \in 1..Len(df_out) :
            Cardinality(GroupOf(df_out[g])) > 1 =>
                \A col \in {"id", "journal"} :
                    \/ /\ \A i \in GroupOf(df_out[g]) : df_in[i][col] = NaN
                       /\ df_out[g][col] = NaN
                    \/ \E i \in GroupOf(df_out[g]) :
                          /\ df_in[i][col] # NaN
                          /\ df_out[g][col] = df_in[i][col]
                          /\ \A j \in GroupOf(df_out[g]) : j < i => df_in[j][col] = NaN

\* two rows of one key: the first misses its id, the second its journal
C10_Witness ==
    /\ pc = "returned"
    /\ Len(df_in) = 2 /\ Len(df_out) = 1
    /\ df_in[1]["id"] = NaN /\ df_in[2]["id"] # NaN
    /\ df_in[1]["journal"] # NaN /\ df_in[2]["journal"] = NaN
    /\ df_out[1]["id"] = df_in[2]["id"]
    /\ df_out[1]["journal"] = df_in[1]["journal"]

\* C10: the row kept for several rows of one key carries the `id` and the
\* `journal` of the first row of the group, empty or missing included.
C10_BothFromFirstRow ==
    pc = "returned" =>
        \A g \in 1..Len(df_out) :
            Cardinality(GroupOf(df_out[g])) > 1 =>
                LET first == NthOf(GroupOf(df_out[g]), 1)
                IN /\ df_out[g]["id"] = df_in[first]["id"]
                   /\ df_out[g]["journal"] = df_in[first]["journal"]

IsoText(y1, y2, y3, y4, m1, m2, d1, d2) ==
    Str(<<y1, y2, y3, y4, "-", m1, m2, "-", d1, d2>>)

\* C11: format_date reads a slash date as DD/MM/YYYY and renders YYYY-MM-DD:
\* the column ["2022-01-01", "01/02/2022", "March 3, 2022"] becomes
\* ["2022-01-01", "2022-02-01", "2022-03-03"], and a slash date with day D and
\* month M comes out with month M and day D.
C11_SlashDatesDayFirst ==
    pc = "returned" =>
        /\ \A i \in 1..Len(df_in) :
              LET cell == df_in[i]["mixed_dates"]
              IN cell # NaN /\ cell[2] = "slash" =>
                    df_out[i]["mixed_dates"] =
                        Str(<<"2", "0", "2", "2", "-",
                              Digit(cell[4] \div 10), Digit(cell[4] % 10), "-",
                              Digit(cell[3] \div 10), Digit(cell[3] % 10)>>)
        /\ df_in = <<[mixed_dates |-> <<"date", "iso", 2022, 1, 1>>],
                     [mixed_dates |-> <<"date", "slash", 1, 2, 2022>>],
                     [mixed_dates |-> <<"date", "text", 3, 3, 2022>>]>> =>
              df_out = <<[mixed_dates |-> IsoText("2", "0", "2", "2", "0", "1", "0", "1")],
                         [mixed_dates |-> IsoText("2", "0", "2", "2", "0", "2", "0", "1")],
                         [mixed_dates |-> IsoText("2", "0", "2", "2", "0", "3", "0", "3")]>>

AllPubmedRows == resources.pubmed_csv \o resources.pubmed_json

MalformedDate ==
    \/ \E i \in 1..Len(AllPubmedRows) :
          AllPubmedRows[i].date # NaN /\ ~IsDateString(AllPubmedRows[i].date)
    \/ \E i \in 1..Len(resources.clinical_trials) :
          /\ resources.clinical_trials[i].date # NaN
          /\ ~IsDateString(resources.clinical_trials[i].date)

UnparseableId ==
    \E i \in 1..Len(AllPubmedRows) :
        ~IsBlankString(AllPubmedRows[i].id) /\ ~ParsesAsInteger(AllPubmedRows[i].id)

Aborted ==
    pc \in {"FileNotFoundError", "ValueError", "AttributeError", "TypeError",
            "KeyError", "OSError"}

\* what the stages before the write compute from the input files
StagesResult ==
    LET loaded == dfs_from_files(resources)
        normalized == normalize_dfs(loaded.dfs.drugs_df, loaded.dfs.pubmed_df,
                                    loaded.dfs.clinical_trials_df)
        generated == generate_mentions_dict(normalized.dfs.drugs_df,
                                            normalized.dfs.pubmed_df,
                                            normalized.dfs.clinical_trials_df, <<>>)
    IN IF loaded.error # None THEN [completed |-> FALSE]
       ELSE IF normalized.error # None THEN [completed |-> FALSE]
       ELSE IF generated.error # None THEN [completed |-> FALSE]
       ELSE [completed |-> TRUE,
             graph |-> Deref(generated.mentions_dict, generated.heap)]

\* C12: in every run of start_pipeline the artifact is written at most once,
\* and only once loading, normalization, consolidation, mention extraction
\* and merge have all completed (what is written is their result); when a
\* stage fails (unreadable file, malformed date, unparseable id, empty table
\* list) the run aborts and nothing is written.
C12_WrittenOnceAfterAllStages ==
    /\ Len(written) <= 1
    /\ written # <<>> =>
          /\ pc = "finished"
          /\ StagesResult.completed
          /\ written[1] = [filename |-> RESULT_FILE, content |-> StagesResult.graph]
    /\ Aborted => written = <<>>
    /\ ~resources.readable \/ MalformedDate \/ UnparseableId =>
          /\ written = <<>>
          /\ pc \notin {"generate_mentions_dict", "write_dict_to_json", "finished"}
          /\ pc \notin {"dfs_from_files", "normalize_dfs"} => Aborted
    /\ concat_dataframes(<<>>).error = "ValueError"

\* a run that wrote the graph, one drug of which a publication mentions
C12_Witness ==
    /\ pc = "finished"
    /\ Len(written) = 1
    /\ \E k \in DOMAIN written[1].content : written[1].content[k]["pubmed"] # <<>>

KeysOnlyInB == {k \in Range(dict2.keys) : k \notin DOMAIN graph_a0}

\* C13: whenever merge_dicts(graph_a, graph_b) returns, the result has exactly
\* the keys of graph_a; when graph_b holds a key that graph_a lacks the call
\* raises an error and returns no graph, so such a key is never added.
C13_ResultKeysAreGraphAKeys ==
    /\ pc = "returned" =>
          /\ merged_dict.keys = dict1.keys
          /\ DOMAIN merged_dict.ref = DOMAIN graph_a0
          /\ KeysOnlyInB = {}
    /\ pc # "merge_dicts" /\ KeysOnlyInB # {} =>
          /\ pc = "KeyError"
          /\ merged_dict = None

\* a call that fails on a key of graph_b after merging one that graph_a holds
C13_Witness ==
    /\ pc = "KeyError"
    /\ KeysOnlyInB # {}
    /\ \E k \in Range(dict2.keys) : k \in DOMAIN graph_a0

====
